---- MODULE Spec2Model ----
(***************************************************************************)
(* Model of elm_kernel/kernel.py: class ElmKernel.                         *)
(*                                                                         *)
(* Text is modelled as a sequence of one-character strings, so that line   *)
(* splitting, joining and formatting are computed, not assumed.  The body  *)
(* of a display message is a sequence in which the fixed parts of the      *)
(* markup are single elements and the substituted text is spliced in.      *)
(***************************************************************************)
EXTENDS Naturals, Sequences, FiniteSets, TLC

VARIABLES
    code,             \* self._code: the list of cells not yet compiled
    tempdir,          \* files inside self._tempdir: name -> content
    execution_count,  \* Kernel.execution_count, maintained by the host
    pc,               \* position of the running do_execute call
    unit,             \* local `code` of do_execute/_compile: the joined text
    javascript,       \* local `javascript` of _compile
    exc,              \* exception in flight inside do_execute ("none" if none)
    displays,         \* display_data messages sent by the running/last call
    status,           \* 'status' of the reply of the last call
    propagated,       \* exception that left the last do_execute ("none" if none)
    log,              \* history: every submitted cell, its trigger decision, its reply
    fired,            \* history: _should_compile of the running/last call
    copy,             \* history: what the manifest copy did in this call
    outcome,          \* history: what happened to the compile of this call
    invoked,          \* history: number of elm-make runs in this call
    stdout            \* history: output captured from elm-make in this call

vars == <<code, tempdir, execution_count, pc, unit, javascript, exc, displays,
          status, propagated, log, fired, copy, outcome, invoked, stdout>>

(***************************************************************************)
(* Bounds                                                                  *)
(***************************************************************************)
MaxSubmits == 3
MaxCellTokens == 3
MaxLiveSubmits == 2

(***************************************************************************)
(* Text                                                                    *)
(***************************************************************************)
NL == "\n"

Marker == <<"-", "-", " ", "c", "o", "m", "p", "i", "l", "e", "-", "c", "o", "d", "e">>

\* Index of the first NL in s, 0 if there is none.
RECURSIVE FirstBreak(_, _)
FirstBreak(s, i) ==
    IF i > Len(s) THEN 0
    ELSE IF s[i] = NL THEN i
    ELSE FirstBreak(s, i + 1)

\* Iterating io.StringIO(s): the lines of s, each with its line break kept.
RECURSIVE StringIOLines(_)
StringIOLines(s) ==
    IF s = <<>> THEN <<>>
    ELSE LET i == FirstBreak(s, 1)
         IN  IF i = 0 THEN <<s>>
             ELSE <<SubSeq(s, 1, i)>> \o StringIOLines(SubSeq(s, i + 1, Len(s)))

\* deque(iterable, 1): a deque of maximal length 1 keeps the last item.
DequeFirst1(items) ==
    IF items = <<>> THEN <<>> ELSE <<items[1]>>

Deque1(items) ==
    IF items = <<>> THEN <<>> ELSE <<items[Len(items)]>>

\* "\n".join(cells)
RECURSIVE JoinNoSep(_)
JoinNoSep(cells) ==
    IF cells = <<>> THEN <<>>
    ELSE cells[1] \o JoinNoSep(Tail(cells))

RECURSIVE Join(_)
Join(cells) ==
    IF cells = <<>> THEN <<>>
    ELSE IF Len(cells) = 1 THEN cells[1]
    ELSE cells[1] \o <<NL>> \o Join(Tail(cells))

\* str(n) for a natural number n
Digit(d) == <<"0", "1", "2", "3", "4", "5", "6", "7", "8", "9">>[d + 1]

RECURSIVE Str(_)
Str(n) ==
    IF n < 10 THEN <<Digit(n)>>
    ELSE Str(n \div 10) \o <<Digit(n % 10)>>

\* str(exc) and repr(exc) of an exception, kept apart
StrExc(e) == <<"str(", e, ")">>
ReprExc(e) == <<"repr(", e, ")">>

(***************************************************************************)
(* _should_compile                                                         *)
(***************************************************************************)
ShouldCompileFirstCell(buf) ==
    LET lines == Deque1(StringIOLines(buf[1]))
    IN  IF lines # <<>> THEN lines[1] = Marker ELSE FALSE

ShouldCompile(buf) ==
    LET lines == Deque1(StringIOLines(buf[Len(buf)]))
    IN  IF lines # <<>> THEN lines[1] = Marker ELSE FALSE

(***************************************************************************)
(* Display messages                                                        *)
(***************************************************************************)
\* _send_error_result(msg)
ErrorResult(msg) ==
    [mime |-> "text/html", body |-> <<"<pre>">> \o msg \o <<"</pre>">>]

DivId(count) == <<"elm-div-">> \o Str(count)

Script(js, module_name, div_id) ==
    <<"var defineElm = function(cb) { if (this.Elm) { this.oldElm = this.Elm; } var define = null; ">>
    \o js \o
    <<" cb(); }; var obj = new Object(); defineElm.bind(obj)(function(){ var mountNode = document.getElementById('">>
    \o div_id \o <<"'); obj.Elm. ">> \o module_name \o <<".embed(mountNode); });">>

\* _send_success_result(javascript): the messages it sends, in order
SendSuccessResultSwapped(js, count) ==
    << [mime |-> "application/javascript",
        body |-> Script(js, <<"Main">>, DivId(count))],
       [mime |-> "text/html",
        body |-> <<"<div id=\"">> \o DivId(count) \o <<"\"></div>">>] >>

SendSuccessResult(js, count) ==
    << [mime |-> "text/html",
        body |-> <<"<div id=\"">> \o DivId(count) \o <<"\"></div>">>],
       [mime |-> "application/javascript",
        body |-> Script(js, <<"Main">>, DivId(count))] >>

(***************************************************************************)
(* The environment: what the file system and elm-make can answer           *)
(***************************************************************************)
ManifestText == <<"{", "}">>

JsOutputs == { <<"v", "a", "r", " ", "x", " ", "=", " ", "1", ";">>, <<"E", "l", "m">> }

CompilerOutputs == { <<"TYPE MISMATCH">>, <<"NAMING ERROR">> }

\* The cells of the sessions that are explored
Cells == { <<"x">>, Marker, Marker \o <<NL, "x">>, <<"x", NL>> \o Marker }

\* The cells a single submission is tried with: every text made of at most
\* MaxCellTokens of these pieces
Tokens == { Marker, <<"x">>, <<NL>>, <<" ">> }

RECURSIVE Concat(_)
Concat(pieces) ==
    IF pieces = <<>> THEN <<>>
    ELSE pieces[1] \o Concat(Tail(pieces))

RichCells ==
    UNION { { Concat(ts) : ts \in [1..n -> Tokens] } : n \in 0..MaxCellTokens }

EmptyDir == [n \in {} |-> <<>>]

\* open(path, 'wt') / shutil.copy: the file now exists with this content
WriteFile(dir, name, text) ==
    [n \in (DOMAIN dir) \cup {name} |-> IF n = name THEN text ELSE dir[n]]

(***************************************************************************)
(* _tempfile: on exit, delete the file if it exists                        *)
(***************************************************************************)
TempfileExitKeep(dir, name) == dir

TempfileExitAll(dir, name) == EmptyDir

TempfileExit(dir, name) ==
    [n \in (DOMAIN dir) \ {name} |-> dir[n]]

(***************************************************************************)
(* The exception handlers: what each sends, and whether it raises again    *)
(***************************************************************************)
\* _compile, except subprocess.CalledProcessError
CompileErrorHandlerRaise(out) ==
    [shown |-> <<ErrorResult(out)>>, reraise |-> TRUE]

CompileErrorHandler(out) ==
    [shown |-> <<ErrorResult(out)>>, reraise |-> FALSE]

\* _compile, except Exception
OtherErrorHandler(e) ==
    [shown |-> <<ErrorResult(ReprExc(e))>>, reraise |-> TRUE]

\* do_execute, except Exception
ExecuteHandlerRaise(e) ==
    [shown |-> <<ErrorResult(StrExc(e))>>, status |-> "none", reraise |-> TRUE]

ExecuteHandler(e) ==
    [shown |-> <<ErrorResult(StrExc(e))>>, status |-> "error", reraise |-> FALSE]

\* _copy_elm_package_file_to_tempdir, except PermissionError
PermissionMessage ==
    <<"Permission error: could not copy elm-package.json to ", "{dir}">>

CopyPermissionHandlerSilent ==
    [shown |-> <<>>, reraise |-> FALSE]

CopyPermissionHandlerRaise ==
    [shown |-> <<ErrorResult(PermissionMessage)>>, reraise |-> TRUE]

CopyPermissionHandler ==
    [shown |-> <<ErrorResult(PermissionMessage)>>, reraise |-> FALSE]

(***************************************************************************)
(* do_execute                                                              *)
(***************************************************************************)
\* The host adds one to execution_count before a call that is not silent.
HostExecutionCount(count, silent) ==
    IF silent THEN count ELSE count + 1

\* self._code.append(code)
PrependCell(buf, cell) == <<cell>> \o buf

AppendCellDropped(buf, cell) == buf

AppendCell(buf, cell) == Append(buf, cell)

\* self._code = []
BufferAfterTriggerKeep(buf) == buf

BufferAfterTrigger(buf) == <<>>

Init ==
    /\ code = <<>>
    /\ tempdir = EmptyDir
    /\ execution_count = 0
    /\ pc = "idle"
    /\ unit = <<>>
    /\ javascript = <<>>
    /\ exc = "none"
    /\ displays = <<>>
    /\ status = "none"
    /\ propagated = "none"
    /\ log = <<>>
    /\ fired = FALSE
    /\ copy = "none"
    /\ outcome = "none"
    /\ invoked = 0
    /\ stdout = <<>>

\* The reply of the running call is recorded in the history
Replied(st) == [log EXCEPT ![Len(log)].status = st]

\* Lines 31-41 and 49-54: append the cell, ask _should_compile, and either
\* answer 'ok' at once or join and clear the buffer and enter _compile.
DoExecute(cell, silent) ==
    /\ pc = "idle"
    /\ LET buf == AppendCell(code, cell)
       IN  /\ execution_count' = HostExecutionCount(execution_count, silent)
           /\ displays' = <<>>
           /\ javascript' = <<>>
           /\ exc' = "none"
           /\ copy' = "none"
           /\ outcome' = "none"
           /\ invoked' = 0
           /\ stdout' = <<>>
           /\ UNCHANGED tempdir
           /\ IF buf = <<>>
              THEN \* assert self._code
                   /\ propagated' = "AssertionError"
                   /\ status' = "none"
                   /\ fired' = FALSE
                   /\ code' = buf
                   /\ unit' = <<>>
                   /\ pc' = "idle"
                   /\ log' = log
              ELSE /\ propagated' = "none"
                   /\ fired' = ShouldCompile(buf)
                   /\ IF fired'
                      THEN /\ unit' = Join(buf)
                           /\ code' = BufferAfterTrigger(buf)
                           /\ status' = "none"
                           /\ pc' = "copy"
                      ELSE /\ unit' = <<>>
                           /\ code' = buf
                           /\ status' = "ok"
                           /\ pc' = "idle"
                   /\ log' = Append(log, [cell |-> cell, fired |-> fired',
                                          status |-> status',
                                          div |-> <<>>])

Execute ==
    /\ Len(log) < MaxSubmits
    /\ \E cell \in Cells, silent \in BOOLEAN : DoExecute(cell, silent)

\* The first call of a session, with any cell of RichCells
TrigExecute ==
    /\ log = <<>>
    /\ \E cell \in RichCells, silent \in BOOLEAN : DoExecute(cell, silent)

\* os.path.isfile('elm-package.json'), given what the working directory holds
IsFileAlways(result) == TRUE

IsFile(result) == result # "absent"

\* Lines 179-191: _copy_elm_package_file_to_tempdir, first statement of _compile
CopyManifest ==
    /\ pc = "copy"
    /\ \E result \in {"absent", "copied", "PermissionError", "OSError"} :
        /\ copy' = result
        /\ IF ~IsFile(result)
           THEN \* existence of elm-package.json is not mandatory: return
                /\ pc' = "write"
                /\ UNCHANGED <<tempdir, displays, exc, outcome>>
           ELSE CASE result = "copied" ->
                  /\ tempdir' = WriteFile(tempdir, "elm-package.json", ManifestText)
                  /\ pc' = "write"
                  /\ UNCHANGED <<displays, exc, outcome>>
             [] result = "PermissionError" ->
                  /\ displays' = displays \o CopyPermissionHandler.shown
                  /\ IF CopyPermissionHandler.reraise
                     THEN /\ exc' = "PermissionError(elm-package.json)"
                          /\ pc' = "except"
                     ELSE /\ pc' = "write"
                          /\ UNCHANGED exc
                  /\ UNCHANGED <<tempdir, outcome>>
             [] result = "OSError" ->
                  \* any other error of shutil.copy is not caught here
                  /\ exc' = "OSError(elm-package.json)"
                  /\ outcome' = "infra"
                  /\ pc' = "except"
                  /\ UNCHANGED <<tempdir, displays>>
             [] result = "absent" ->
                  \* shutil.copy of a file that does not exist
                  /\ exc' = "FileNotFoundError(elm-package.json)"
                  /\ outcome' = "infra"
                  /\ pc' = "except"
                  /\ UNCHANGED <<tempdir, displays>>
    /\ UNCHANGED <<code, execution_count, unit, javascript, status, propagated,
                   log, fired, invoked, stdout>>

\* Lines 71-75: enter both _tempfile contexts and write the unit to input.elm.
\* An error here is outside the try of line 77.
WriteInput ==
    /\ pc = "write"
    /\ \E result \in {"written", "open fails", "write fails"} :
        CASE result = "written" ->
                  /\ tempdir' = WriteFile(tempdir, "input.elm", unit)
                  /\ pc' = "run"
                  /\ UNCHANGED <<exc, outcome>>
          [] result = "open fails" ->
                  /\ exc' = "OSError(input.elm)"
                  /\ outcome' = "infra"
                  /\ pc' = "cleanup"
                  /\ UNCHANGED tempdir
          [] result = "write fails" ->
                  /\ tempdir' = WriteFile(tempdir, "input.elm", <<>>)
                  /\ exc' = "OSError(input.elm)"
                  /\ outcome' = "infra"
                  /\ pc' = "cleanup"
    /\ UNCHANGED <<code, execution_count, unit, javascript, displays, status,
                   propagated, log, fired, copy, invoked, stdout>>

\* Lines 97-99: an exception e other than CalledProcessError inside the try
RaisedInTry(e) ==
    /\ displays' = displays \o OtherErrorHandler(e).shown
    /\ exc' = IF OtherErrorHandler(e).reraise THEN e ELSE "none"
    /\ outcome' = "infra"
    /\ pc' = "cleanup"

\* Lines 77-85 and 92-99: subprocess.run(['elm-make', ...], check=True)
RunCompiler ==
    /\ pc = "run"
    /\ \/ \* the executable cannot be started
          /\ RaisedInTry("FileNotFoundError(elm-make)")
          /\ UNCHANGED <<tempdir, invoked, stdout>>
       \/ \* exit status 0, with or without an output file
          /\ invoked' = invoked + 1
          /\ \/ \E js \in JsOutputs : tempdir' = WriteFile(tempdir, "index.js", js)
             \/ UNCHANGED tempdir
          /\ pc' = "read"
          /\ UNCHANGED <<exc, displays, outcome, stdout>>
       \/ \* exit status not 0: CalledProcessError carrying the captured output
          /\ invoked' = invoked + 1
          /\ \E out \in CompilerOutputs :
                /\ stdout' = out
                /\ displays' = displays \o CompileErrorHandler(out).shown
                /\ exc' = IF CompileErrorHandler(out).reraise
                          THEN "CalledProcessError" ELSE "none"
          /\ outcome' = "compile_failure"
          /\ \/ \E js \in JsOutputs : tempdir' = WriteFile(tempdir, "index.js", js)
             \/ UNCHANGED tempdir
          /\ pc' = "cleanup"
    /\ UNCHANGED <<code, execution_count, unit, javascript, status, propagated,
                   log, fired, copy>>

\* The id attribute of a container element <div id="..."></div>
IdOfContainer(message) == SubSeq(message.body, 2, Len(message.body) - 1)

\* The container element of the running call is recorded in the history
Mounted(message) == [log EXCEPT ![Len(log)].div = IdOfContainer(message)]

\* Lines 87-90 and 97-99: read index.js and send the success messages
ReadOutput ==
    /\ pc = "read"
    /\ \/ /\ "index.js" \in DOMAIN tempdir
          /\ javascript' = tempdir["index.js"]
          /\ displays' = displays \o SendSuccessResult(javascript', execution_count)
          /\ log' = Mounted(SendSuccessResult(javascript', execution_count)[1])
          /\ outcome' = "success"
          /\ pc' = "cleanup"
          /\ UNCHANGED exc
       \/ /\ "index.js" \notin DOMAIN tempdir
          /\ RaisedInTry("FileNotFoundError(index.js)")
          /\ UNCHANGED <<javascript, log>>
       \/ /\ "index.js" \in DOMAIN tempdir
          /\ RaisedInTry("UnicodeDecodeError(index.js)")
          /\ UNCHANGED <<javascript, log>>
    /\ UNCHANGED <<code, tempdir, execution_count, unit, status, propagated,
                   fired, copy, invoked, stdout>>

\* Lines 64-66 twice (index.js, then input.elm) on leaving the with statement
\* of line 71, then either the return of lines 49-54 or the handler of line 42.
LeaveCompile ==
    /\ pc = "cleanup"
    /\ tempdir' = TempfileExit(TempfileExit(tempdir, "index.js"), "input.elm")
    /\ IF exc = "none"
       THEN /\ status' = "ok"
            /\ log' = Replied("ok")
            /\ pc' = "idle"
       ELSE /\ pc' = "except"
            /\ UNCHANGED <<status, log>>
    /\ UNCHANGED <<code, execution_count, unit, javascript, exc, displays,
                   propagated, fired, copy, outcome, invoked, stdout>>

\* Lines 42-47: except Exception in do_execute
ExceptInExecute ==
    /\ pc = "except"
    /\ displays' = displays \o ExecuteHandler(exc).shown
    /\ status' = ExecuteHandler(exc).status
    /\ log' = Replied(status')
    /\ propagated' = IF ExecuteHandler(exc).reraise THEN exc ELSE "none"
    /\ pc' = "idle"
    /\ UNCHANGED <<code, tempdir, execution_count, unit, javascript, exc,
                   fired, copy, outcome, invoked, stdout>>

Compile ==
    \/ CopyManifest
    \/ WriteInput
    \/ RunCompiler
    \/ ReadOutput
    \/ LeaveCompile
    \/ ExceptInExecute

Next ==
    \/ Execute
    \/ Compile

Spec == Init /\ [][Next]_vars

\* A session of one call, tried with every cell of RichCells
TrigNext ==
    \/ TrigExecute
    \/ Compile

TrigSpec == Init /\ [][TrigNext]_vars

(***************************************************************************)
(* Vocabulary of the properties                                            *)
(***************************************************************************)
Breaks(s) == { i \in 1..Len(s) : s[i] = NL }

Least(S) == CHOOSE i \in S : \A j \in S : i <= j

Greatest(S) == CHOOSE i \in S : \A j \in S : j <= i

\* The text up to the first line break, or the whole text if it has none
FirstLineOf(s) ==
    IF Breaks(s) = {} THEN s ELSE SubSeq(s, 1, Least(Breaks(s)) - 1)

\* The text after the last line break, or the whole text if it has none
AfterLastBreak(s) ==
    IF Breaks(s) = {} THEN s ELSE SubSeq(s, Greatest(Breaks(s)) + 1, Len(s))

\* text is the cells in order, with one line break between neighbours
RECURSIVE IsJoinOf(_, _)
IsJoinOf(text, cells) ==
    IF cells = <<>> THEN text = <<>>
    ELSE IF Len(cells) = 1 THEN text = cells[1]
    ELSE LET n == Len(cells[1])
         IN  /\ Len(text) > n
             /\ SubSeq(text, 1, n) = cells[1]
             /\ text[n + 1] = NL
             /\ IsJoinOf(SubSeq(text, n + 2, Len(text)), Tail(cells))

\* part occurs in text as a contiguous piece
Contains(text, part) ==
    \E i \in 0..Len(text) :
        /\ i + Len(part) <= Len(text)
        /\ SubSeq(text, i + 1, i + Len(part)) = part

\* The cells submitted after the last trigger-firing call that came before
\* the latest call, up to and including the latest call
PreviousTriggers(h) == { i \in 1..(Len(h) - 1) : h[i].fired }

SinceLastTrigger(h) ==
    LET from == IF PreviousTriggers(h) = {} THEN 1
                ELSE Greatest(PreviousTriggers(h)) + 1
    IN  [k \in 1..(Len(h) + 1 - from) |-> h[from + k - 1].cell]

\* The number written by a sequence of decimal digits
DigitValue(c) == CHOOSE d \in 0..9 : Digit(d) = c

RECURSIVE NumberOf(_)
NumberOf(ds) ==
    IF ds = <<>> THEN 0
    ELSE 10 * NumberOf(SubSeq(ds, 1, Len(ds) - 1)) + DigitValue(ds[Len(ds)])

Returned == pc = "idle" /\ log # <<>>

NoCopyError == copy \in {"absent", "copied"}

ScratchFilesAbsent ==
    /\ "input.elm" \notin DOMAIN tempdir
    /\ "index.js" \notin DOMAIN tempdir

(***************************************************************************)
(* C1                                                                      *)
(***************************************************************************)
\* C1 as claimed: the trigger fires for a cell if and only if the first line
\* of the cell (the text up to the first line break, or the whole cell) is
\* exactly the marker.
C1_FirstLineDecides ==
    \A i \in 1..Len(log) :
        log[i].fired <=> (FirstLineOf(log[i].cell) = Marker)

\* C1 as amended: the trigger fires for a cell if and only if the text after
\* the last line break of the cell (the whole cell if it has none) is exactly
\* the marker; a marker line followed by further lines does not fire, a
\* marker on the last line does.
C1_LastLineDecides ==
    \A i \in 1..Len(log) :
        log[i].fired <=> (AfterLastBreak(log[i].cell) = Marker)

C1_Witness ==
    \E i \in 1..Len(log) :
        /\ log[i].fired
        /\ Breaks(log[i].cell) # {}
        /\ FirstLineOf(log[i].cell) # Marker

(***************************************************************************)
(* C2                                                                      *)
(***************************************************************************)
\* C2: whenever a call fires the trigger, the text handed to _compile is the
\* cells submitted after the previous trigger-firing call (or since the
\* start) up to and including the firing cell, in order, joined by line
\* breaks; also when the previous compile failed.
C2_UnitIsCellsSinceLastTrigger ==
    fired => IsJoinOf(unit, SinceLastTrigger(log))

C2_Witness ==
    /\ fired
    /\ Len(log) = 3
    /\ log[1].fired
    /\ log[1].status = "error"
    /\ ~log[2].fired
    /\ unit = log[2].cell \o <<NL>> \o log[3].cell

(***************************************************************************)
(* C3                                                                      *)
(***************************************************************************)
\* C3: once the trigger has fired the buffer is empty: at every step of
\* _compile, so before elm-make is run, and when the call has returned,
\* whatever the outcome.
C3_BufferEmptyOnceTriggered ==
    fired => code = <<>>

C3_Witness ==
    /\ Returned
    /\ fired
    /\ outcome = "infra"
    /\ invoked = 0
    /\ Len(log) > 1
    /\ ~log[Len(log) - 1].fired

(***************************************************************************)
(* C4                                                                      *)
(***************************************************************************)
\* C4: a triggered call that ends in an infrastructure failure has sent
\* exactly one display message and replies with status 'error'.
C4_OneDisplayOnInfrastructureFailure ==
    (Returned /\ fired /\ outcome = "infra") =>
        /\ Len(displays) = 1
        /\ status = "error"

(***************************************************************************)
(* C5                                                                      *)
(***************************************************************************)
\* C5: a triggered call in which elm-make ran and exited non-zero, without a
\* manifest copy error, has sent exactly one display message, which carries
\* the captured output, replies with status 'ok', and raises nothing.
C5_CompileFailureIsOk ==
    (Returned /\ fired /\ outcome = "compile_failure" /\ NoCopyError) =>
        /\ Len(displays) = 1
        /\ Contains(displays[1].body, stdout)
        /\ status = "ok"
        /\ propagated = "none"

C5_Witness ==
    /\ Returned
    /\ fired
    /\ outcome = "compile_failure"
    /\ NoCopyError
    /\ invoked = 1
    /\ stdout = <<"TYPE MISMATCH">>

(***************************************************************************)
(* C6                                                                      *)
(***************************************************************************)
\* C6: a triggered call in which elm-make exited zero and index.js was read,
\* without a manifest copy error, has sent exactly two display messages:
\* first the container whose id is elm-div- followed by the execution count,
\* then the script that contains the generated text and mounts module Main
\* into the element of that id; the reply has status 'ok'.
C6_SuccessSendsDivThenScript ==
    (Returned /\ fired /\ outcome = "success" /\ NoCopyError) =>
        /\ Len(displays) = 2
        /\ displays[1].mime = "text/html"
        /\ Len(displays[1].body) > 3
        /\ LET html == displays[1].body
               id == SubSeq(html, 2, Len(html) - 1)
           IN  /\ html[1] = "<div id=\""
               /\ html[Len(html)] = "\"></div>"
               /\ id[1] = "elm-div-"
               /\ NumberOf(Tail(id)) = execution_count
               /\ displays[2].mime = "application/javascript"
               /\ Contains(displays[2].body, javascript)
               /\ Contains(displays[2].body,
                           id \o <<"'); obj.Elm. ", "Main", ".embed(mountNode); });">>)
        /\ status = "ok"

C6_Witness ==
    /\ Returned
    /\ fired
    /\ outcome = "success"
    /\ NoCopyError
    /\ javascript = <<"v", "a", "r", " ", "x", " ", "=", " ", "1", ";">>
    /\ execution_count > 0

C8_FailurePropagatesToHost ==
    (Returned /\ fired /\ outcome = "infra") => propagated # "none"

\* C8 as amended: on an infrastructure failure the exception leaves _compile
\* but is caught in do_execute, which sends an error display after those
\* already sent and replies with status 'error'; no exception reaches the
\* host.
C8_FailureCaughtInExecute ==
    /\ (fired /\ outcome = "infra" /\ pc = "except") => exc # "none"
    /\ (Returned /\ fired /\ outcome = "infra") =>
          /\ propagated = "none"
          /\ status = "error"
          /\ displays # <<>>
          /\ displays[Len(displays)].body = <<"<pre>", "str(", exc, ")", "</pre>">>

C8_Witness ==
    /\ Returned
    /\ fired
    /\ outcome = "infra"
    /\ exc = "FileNotFoundError(elm-make)"
    /\ Len(displays) = 2

(***************************************************************************)
(* C9                                                                      *)
(***************************************************************************)
\* C9: a cell that is exactly the marker always fires the trigger, whatever
\* the buffer holds, and the unit is then all the buffered cells and the
\* marker cell.
C9_MarkerOnlyCellFires ==
    (log # <<>> /\ log[Len(log)].cell = Marker) =>
        /\ log[Len(log)].fired
        /\ fired
        /\ Len(unit) >= Len(Marker)
        /\ SubSeq(unit, Len(unit) - Len(Marker) + 1, Len(unit)) = Marker
        /\ (Len(log) > 1 /\ ~log[Len(log) - 1].fired) =>
              Contains(unit, log[Len(log) - 1].cell \o <<NL>> \o Marker)

C9_Witness ==
    /\ Len(log) = 3
    /\ log[3].cell = Marker
    /\ ~log[1].fired
    /\ ~log[2].fired
    /\ fired

(***************************************************************************)
(* C10                                                                     *)
(***************************************************************************)
\* C10 as claimed: a call during which the manifest copy fails with a
\* permission error replies with status 'error'.
C10_PermissionErrorIsError ==
    (Returned /\ copy = "PermissionError") => status = "error"

\* C10 as amended: a call during which the manifest copy fails with a
\* permission error replies with status 'error' only when a later step of
\* the pipeline fails with an infrastructure failure; when elm-make then
\* succeeds or reports a compile failure the reply has status 'ok'.
C10_PermissionErrorAloneIsOk ==
    (Returned /\ copy = "PermissionError") =>
        /\ status \in {"ok", "error"}
        /\ (status = "error") <=> (outcome = "infra")

C10_Witness ==
    /\ Returned
    /\ copy = "PermissionError"
    /\ outcome = "success"
    /\ status = "ok"

(***************************************************************************)
(* C11                                                                     *)
(***************************************************************************)
\* C11: when the manifest copy fails with a permission error, exactly one
\* error display is sent for it and _compile goes on: the next step is the
\* write of the unit to input.elm, elm-make is then run on that file, and
\* the call ends without elm-make having been started only if the write of
\* input.elm itself fails.
C11_PermissionErrorDoesNotAbort ==
    (copy = "PermissionError") =>
        /\ displays # <<>>
        /\ displays[1].mime = "text/html"
        /\ Contains(displays[1].body, PermissionMessage)
        /\ \A k \in 2..Len(displays) : ~Contains(displays[k].body, PermissionMessage)
        /\ pc # "copy"
        /\ (pc \in {"run", "read"}) =>
              /\ "input.elm" \in DOMAIN tempdir
              /\ tempdir["input.elm"] = unit
        /\ (pc \in {"cleanup", "except", "idle"}) =>
              \/ invoked = 1
              \/ exc = "FileNotFoundError(elm-make)"
              \/ exc = "OSError(input.elm)"

C11_Witness ==
    /\ copy = "PermissionError"
    /\ Returned
    /\ invoked = 1
    /\ outcome = "compile_failure"
    /\ Len(displays) = 2

(***************************************************************************)
(* C12                                                                     *)
(***************************************************************************)
\* C12: when no manifest exists at the time of a triggered compile, the copy
\* step sends no display, raises nothing and leaves the temporary directory
\* as it was; _compile goes on to the write of input.elm.
C12_AbsentManifestIsNoOp ==
    [][(pc = "copy" /\ copy' = "absent") =>
          /\ displays' = displays
          /\ tempdir' = tempdir
          /\ exc' = "none"
          /\ pc' = "write"]_vars

C12_Witness ==
    /\ copy = "absent"
    /\ pc = "write"
    /\ displays = <<>>
    /\ "elm-package.json" \in DOMAIN tempdir

(***************************************************************************)
(* C13                                                                     *)
(***************************************************************************)
\* A call was made in this step and its cell did not fire the trigger
NoTriggerCall ==
    /\ Len(log') = Len(log) + 1
    /\ ~log'[Len(log')].fired

\* C13: a call whose cell does not fire the trigger only appends the cell at
\* the end of the buffer: the earlier entries keep their content and order,
\* no display is sent, elm-make is not run, the temporary directory is as it
\* was, and the reply has status 'ok'.
C13_NoTriggerOnlyAppends ==
    [][NoTriggerCall =>
          /\ code' = code \o <<log'[Len(log')].cell>>
          /\ displays' = <<>>
          /\ invoked' = 0
          /\ tempdir' = tempdir
          /\ pc' = "idle"
          /\ status' = "ok"
          /\ propagated' = "none"]_vars

C13_Witness ==
    /\ Returned
    /\ ~fired
    /\ Len(code) = 2
    /\ code[1] # code[2]
    /\ status = "ok"

C15_DecisionDependsOnLastCellOnly ==
    /\ \A i, j \in 1..Len(log) :
          (log[i].cell = log[j].cell) => (log[i].fired = log[j].fired)
    /\ \A i \in 1..Len(log) :
          (log[i].cell = <<"x">>) => ~log[i].fired

C15_Witness ==
    /\ Len(log) = 3
    /\ log[1].cell = <<"x">>
    /\ log[2].cell = Marker \o <<NL, "x">>
    /\ log[3].cell = <<"x">>
    /\ Len(code) = 3

(***************************************************************************)
(* C16                                                                     *)
(***************************************************************************)
\* C16: the assertion of _should_compile never fails: no call ends with an
\* AssertionError, and a call that did not fire leaves a buffer that is not
\* empty, also the call after a compile has cleared the buffer.
C16_AssertionNeverFails ==
    /\ propagated # "AssertionError"
    /\ (log # <<>> /\ ~fired) => code # <<>>

C16_Witness ==
    /\ Len(log) = 2
    /\ log[1].fired
    /\ ~log[2].fired
    /\ code = <<log[2].cell>>
    /\ propagated = "none"

(***************************************************************************)
(* C17                                                                     *)
(***************************************************************************)
\* The calls of the session that sent a container element
Compiled == { i \in 1..Len(log) : log[i].div # <<>> }

\* C17: within one session any two successful compiles send container
\* elements with different ids.
C17_ContainerIdsDiffer ==
    \A i, j \in Compiled : (i # j) => (log[i].div # log[j].div)

(***************************************************************************)
(* C18                                                                     *)
(***************************************************************************)
\* do_execute runs to its end once called: every statement of _compile is
\* followed by the next one, and the run of elm-make returns.
LiveExecute ==
    /\ Len(log) < MaxLiveSubmits
    /\ \E cell \in Cells, silent \in BOOLEAN : DoExecute(cell, silent)

LiveNext ==
    \/ LiveExecute
    \/ Compile

LiveSpec == Init /\ [][LiveNext]_vars /\ WF_vars(Compile)

\* C18: every call reaches its end: it replies with a status after at most
\* one run of elm-make, elm-make is run only if the trigger fired for the
\* cell, and a call that has entered _compile always leaves it.
C18_EveryCallReturns ==
    /\ [](/\ invoked <= 1
          /\ (invoked > 0) => fired
          /\ (pc # "idle") => fired
          /\ Returned => (status \in {"ok", "error"} /\ propagated = "none"))
    /\ (pc # "idle") ~> (pc = "idle")

C18_Witness ==
    /\ Returned
    /\ fired
    /\ invoked = 1
    /\ status = "ok"

====
